---- MODULE Spec2Model ----
(***************************************************************************)
(* Meeting summarizer: the Streamlit application (streamlit_app.py), the   *)
(* command-line script (meeting_summarizer.py) and the report text both    *)
(* of them assemble.                                                       *)
(*                                                                         *)
(* Text is a sequence of pieces.  A piece is one character ("a", " ",      *)
(* "\n", "-", "=") or one literal of the source, kept whole ("ORIGINAL     *)
(* TRANSCRIPT:", "Transcription failed: ").  Python's  x in str(e)  is     *)
(* the search for the piece x: no literal of the source contains "CUDA"    *)
(* or "reshape tensor", so only the engine's own message can hold them.    *)
(***************************************************************************)
EXTENDS Naturals, Sequences, FiniteSets

VARIABLES
    pc,             \* position of the script run of streamlit_app.py
    session_state,  \* st.session_state: transcript, summary, processing
    host,           \* the machine: ffmpeg, GEMINI_API_KEY, files on disk
    call,           \* locals of the running (or last) transcribe_audio call
    cache,          \* st.cache_resource: the Gemini handle of load_gemini_model
    hist,           \* history of the UI session (observation only)
    cli,            \* the run of meeting_summarizer.py
    rep             \* the report assembler applied to one (T, S)

vars == <<pc, session_state, host, call, cache, hist, cli, rep>>

-----------------------------------------------------------------------------
(* Bounds *)

\* "Process Audio" clicks in one UI session
MaxRuns == 2
\* length of a text the speech engine returns
MaxTextLen == 4
\* length of the transcript and of the summary handed to the report assembler
MaxReportLen == 2

(* Program constants *)

\* streamlit_app.py:62  len(audio_data) < 1024
MIN_AUDIO_BYTES == 1024
\* streamlit_app.py:108  len(transcript) < 3
MIN_TRANSCRIPT_LEN == 3
\* streamlit_app.py:163, 167 and meeting_summarizer.py:76, 82  '-' * 30
SECTION_RULE_LEN == 30
\* streamlit_app.py:160 and meeting_summarizer.py:72  '=' * 60
TITLE_RULE_LEN == 60
\* meeting_summarizer.py:32  "-" * 50
TRANSCRIPT_RULE_LEN == 50

-----------------------------------------------------------------------------
(* Text *)

Whitespace == {" ", "\n"}

RECURSIVE LStrip(_)
LStrip(s) ==
    IF s = <<>> THEN s
    ELSE IF Head(s) \in Whitespace THEN LStrip(Tail(s)) ELSE s

RECURSIVE RStrip(_)
RStrip(s) ==
    IF s = <<>> THEN s
    ELSE IF s[Len(s)] \in Whitespace THEN RStrip(SubSeq(s, 1, Len(s) - 1)) ELSE s

\* str.strip()
Strip(s) == RStrip(LStrip(s))

\* x in s, for a piece x
Contains(s, x) == \E i \in 1..Len(s) : s[i] = x

\* c * n
Repeat(c, n) == [i \in 1..n |-> c]

\* s[i:i+len(p)] == p
OccursAt(p, s, i) ==
    /\ i >= 1
    /\ i + Len(p) - 1 <= Len(s)
    /\ SubSeq(s, i, i + Len(p) - 1) = p

StartsWith(s, p) == OccursAt(p, s, 1)

EndsWith(s, p) == Len(p) <= Len(s) /\ OccursAt(p, s, Len(s) - Len(p) + 1)

\* all texts over the characters cs of length at most n
TextsUpTo(cs, n) == UNION {[1..k -> cs] : k \in 0..n}

-----------------------------------------------------------------------------
(* The outside world: what the engines and the uploader may hand over *)

\* sizes of the uploaded blob, around the floor of streamlit_app.py:62
BlobSizes == {0, 1, MIN_AUDIO_BYTES - 1, MIN_AUDIO_BYTES, MIN_AUDIO_BYTES + 1}

\* result['text'] of whisper's transcribe
EngineTexts == TextsUpTo({"a", " "}, MaxTextLen)

\* str(e) of an exception whisper's transcribe raises
EngineMsgs ==
    { <<"err">>, <<"CUDA", "err">>, <<"err", "reshape tensor">>,
      <<"CUDA", "reshape tensor">> }

EngineOutcomes ==
    [kind : {"text"}, val : EngineTexts] \cup [kind : {"raise"}, val : EngineMsgs]

\* response.text of Gemini's generate_content
GeminiTexts == { <<>>, <<"a">>, <<"-", " ", "a", "\n">> }

\* str(e) of an exception generate_content or response.text raises
GeminiMsgs == { <<"quota">> }

GeminiOutcomes ==
    [kind : {"text"}, val : GeminiTexts] \cup [kind : {"raise"}, val : GeminiMsgs]

\* str(e) of an OSError of the temporary file
OsMsgs == { <<"No space left on device">> }

-----------------------------------------------------------------------------
(* Literals of streamlit_app.py *)

MsgEmpty == <<"Audio file is empty">>
MsgTooSmall ==
    <<"Audio file is too small (less than 1KB). Please check if the file is valid.">>
MsgTmpMissing == <<"Temporary file not created: ", "tmp_file_path">>
MsgTmpEmpty == <<"Temporary file is empty">>
MsgFfmpegMissing ==
    <<"FFmpeg not found. Please ensure FFmpeg is installed and in your PATH.">>
MsgFfmpegBroken == <<"FFmpeg is installed but not working properly.">>
MsgInvalidFormat ==
    <<"Invalid audio file format or corrupted file. FFmpeg error: ",
      "CalledProcessError">>
MsgNoSpeech == <<"No speech detected in the audio file">>
MsgTooShort == <<"Transcript is too short. Audio may not contain clear speech.">>
MsgUnsupported ==
    <<"Audio file appears to be corrupted or in an unsupported format. ",
      "Try converting to WAV format first.">>
PrefixWhisper == <<"Whisper transcription error: ">>
MsgProcessingFailed ==
    <<"Audio file processing failed. The file may be corrupted, empty, or in an unsupported format. Please try:",
      "\n", "1. Converting to WAV format",
      "\n", "2. Checking if the file contains actual audio content",
      "\n", "3. Using a different audio file">>
PrefixTranscriptionFailed == <<"Transcription failed: ">>
MsgNoGemini == <<"Error: Could not load Gemini model">>
PrefixSummaryError == <<"Error generating summary: ">>
PrefixErrorOccurred == <<"An error occurred: ">>

-----------------------------------------------------------------------------
(* streamlit_app.py: state of one UI session *)

NoOutcome == [kind |-> "none", val |-> <<>>]

\* the locals of transcribe_audio on entry; tmp_file_path = 0 is "not in locals()".
\* load_whisper_model() of line 51 hands over the cached engine; the suffix of
\* lines 66-68 only names the temporary file and is left out.
NewCall(size) ==
    [ blobSize      |-> size,
      tmp_file_path |-> 0,
      created       |-> {},         \* temporary files this call created
      ffmpegCalls   |-> 0,          \* subprocess.run(['ffmpeg', ...]) so far
      engineCalls   |-> 0,          \* model.transcribe(...) so far
      first         |-> NoOutcome,  \* what the first model.transcribe did
      retry         |-> NoOutcome,  \* what the device="cpu" retry did
      e             |-> <<>>,       \* str(e) in the handler of line 113
      exc           |-> <<>>,       \* str(e) in the handler of line 126
      status        |-> "running",  \* running | returned | raised
      value         |-> <<>>,       \* the transcript returned, the message raised
      unlinkFailed  |-> FALSE ]

UiIdleCall == [NewCall(0) EXCEPT !.status = "none"]

UiInit ==
    /\ pc = "idle"
    /\ session_state = [transcript |-> <<>>, summary |-> <<>>, processing |-> FALSE]
    /\ host \in [ ffmpeg  : {"ok", "missing", "broken"},
                  apiKey  : BOOLEAN,
                  disk    : {{}},
                  nextTmp : {1} ]
    /\ call = UiIdleCall
    /\ cache = [gemini |-> "unloaded"]
    /\ hist = [ runs            |-> 0,
                revealed        |-> FALSE,  \* an earlier call found ffmpeg missing
                revealedAtStart |-> FALSE,  \* revealed, when this run started
                prevTranscript  |-> <<>>,   \* transcript stored when the run started
                summaryOf       |-> <<>>,   \* argument of the generate_summary stored
                prompt          |-> <<>>,   \* prompt sent to Gemini for that summary
                shown           |-> <<>> ]  \* st.error of the handler

NotCli == UNCHANGED <<cli, rep>>

\* the handler of line 126 has the exception: pc' = "ta_outer"
Raise(msg) ==
    /\ call' = [call EXCEPT !.exc = msg]
    /\ pc' = "ta_outer"

-----------------------------------------------------------------------------
(* streamlit_app.py: the "Process Audio" handler, lines 209-249 *)

\* ProcessAudio without lines 211-212: the earlier results are kept
ProcessAudio_NoReset ==
    /\ pc = "idle"
    /\ hist.runs < MaxRuns
    /\ \E size \in BlobSizes :
          call' = NewCall(size)
    /\ session_state' = [session_state EXCEPT !.processing = TRUE]
    /\ hist' = [hist EXCEPT !.runs = @ + 1,
                            !.revealedAtStart = hist.revealed,
                            !.prevTranscript = session_state.transcript,
                            !.shown = <<>>]
    /\ pc' = "ta_size"
    /\ UNCHANGED <<host, cache>>
    /\ NotCli

\* lines 209-212, and the call of line 228 entering transcribe_audio
ProcessAudio ==
    /\ pc = "idle"
    /\ hist.runs < MaxRuns
    /\ \E size \in BlobSizes :
          call' = NewCall(size)
    /\ session_state' = [transcript |-> <<>>, summary |-> <<>>, processing |-> TRUE]
    /\ hist' = [hist EXCEPT !.runs = @ + 1,
                            !.revealedAtStart = hist.revealed,
                            !.prevTranscript = session_state.transcript,
                            !.summaryOf = <<>>,
                            !.prompt = <<>>,
                            !.shown = <<>>]
    /\ pc' = "ta_size"
    /\ UNCHANGED <<host, cache>>
    /\ NotCli

-----------------------------------------------------------------------------
(* streamlit_app.py: transcribe_audio, lines 48-138 *)

\* TA_CheckSize without the floor of lines 61-63
TA_CheckSize_NoFloor ==
    /\ pc = "ta_size"
    /\ IF call.blobSize = 0 THEN Raise(MsgEmpty)
       ELSE pc' = "ta_write" /\ UNCHANGED call
    /\ UNCHANGED <<session_state, host, cache, hist>>
    /\ NotCli

\* lines 54-63
TA_CheckSize ==
    /\ pc = "ta_size"
    /\ IF call.blobSize = 0 THEN Raise(MsgEmpty)
       ELSE IF call.blobSize < MIN_AUDIO_BYTES THEN Raise(MsgTooSmall)
       ELSE pc' = "ta_write" /\ UNCHANGED call
    /\ UNCHANGED <<session_state, host, cache, hist>>
    /\ NotCli

\* lines 70-72: NamedTemporaryFile(delete=False), write, tmp_file_path = name.
\* created: the file is on disk; bound: line 72 was reached.
TA_WriteTmp ==
    /\ pc = "ta_write"
    /\ \E o \in {"ok", "create_fails", "write_fails"} :
          LET id == host.nextTmp
              made == o # "create_fails"
              size == IF o = "ok" THEN call.blobSize ELSE 0
          IN  /\ host' = IF made
                         THEN [host EXCEPT !.disk = @ \cup {[id |-> id, size |-> size]},
                                           !.nextTmp = @ + 1]
                         ELSE host
              /\ IF o = "ok"
                 THEN /\ call' = [call EXCEPT !.tmp_file_path = id,
                                              !.created = @ \cup {id}]
                      /\ pc' = "ta_checktmp"
                 ELSE /\ call' = [call EXCEPT !.created =
                                        IF made THEN @ \cup {id} ELSE @,
                                     !.exc = CHOOSE m \in OsMsgs : TRUE]
                      /\ pc' = "ta_outer"
    /\ UNCHANGED <<session_state, cache, hist>>
    /\ NotCli

Exists(path) == \E f \in host.disk : f.id = path

GetSize(path) == (CHOOSE f \in host.disk : f.id = path).size

\* lines 75-80
TA_CheckTmp ==
    /\ pc = "ta_checktmp"
    /\ IF ~Exists(call.tmp_file_path) THEN Raise(MsgTmpMissing)
       ELSE IF GetSize(call.tmp_file_path) = 0 THEN Raise(MsgTmpEmpty)
       ELSE pc' = "ta_ffmpeg" /\ UNCHANGED call
    /\ UNCHANGED <<session_state, host, cache, hist>>
    /\ NotCli

\* lines 83-89: subprocess.run(['ffmpeg', '-version'], check=True)
TA_CheckFfmpeg ==
    /\ pc = "ta_ffmpeg"
    /\ call' = [call EXCEPT !.ffmpegCalls = @ + 1,
                            !.exc = IF host.ffmpeg = "missing" THEN MsgFfmpegMissing
                                    ELSE IF host.ffmpeg = "broken" THEN MsgFfmpegBroken
                                    ELSE @]
    /\ pc' = IF host.ffmpeg = "ok" THEN "ta_probe" ELSE "ta_outer"
    /\ hist' = [hist EXCEPT !.revealed = @ \/ host.ffmpeg = "missing"]
    /\ UNCHANGED <<session_state, host, cache>>
    /\ NotCli

\* lines 92-97: ffmpeg -v quiet -i tmp_file_path -f null -
TA_Probe ==
    /\ pc = "ta_probe"
    /\ \E decodes \in BOOLEAN :
          /\ call' = [call EXCEPT !.ffmpegCalls = @ + 1,
                                  !.exc = IF decodes THEN @ ELSE MsgInvalidFormat]
          /\ pc' = IF decodes THEN "ta_transcribe" ELSE "ta_outer"
    /\ UNCHANGED <<session_state, host, cache, hist>>
    /\ NotCli

\* lines 101-111: the first model.transcribe and the checks of its text
TA_Transcribe ==
    /\ pc = "ta_transcribe"
    /\ \E o \in EngineOutcomes :
          LET transcript == Strip(o.val)
              c == [call EXCEPT !.engineCalls = @ + 1, !.first = o]
          IN  IF o.kind = "raise"
              THEN call' = [c EXCEPT !.e = o.val] /\ pc' = "ta_inner"
              ELSE IF transcript = <<>>
              THEN call' = [c EXCEPT !.e = MsgNoSpeech] /\ pc' = "ta_inner"
              ELSE IF Len(transcript) < MIN_TRANSCRIPT_LEN
              THEN call' = [c EXCEPT !.e = MsgTooShort] /\ pc' = "ta_inner"
              ELSE /\ call' = [c EXCEPT !.status = "returned", !.value = transcript]
                   /\ pc' = "ta_finally"
    /\ UNCHANGED <<session_state, host, cache, hist>>
    /\ NotCli

\* TA_InnerExcept without the branch of line 116: no retry
TA_InnerExcept_NoRetry ==
    /\ pc = "ta_inner"
    /\ IF Contains(call.e, "reshape tensor") THEN Raise(MsgUnsupported)
       ELSE Raise(PrefixWhisper \o call.e)
    /\ UNCHANGED <<session_state, host, cache, hist>>
    /\ NotCli

\* lines 113-116, 123-124: the handler of every exception of lines 101-111
TA_InnerExcept ==
    /\ pc = "ta_inner"
    /\ IF Contains(call.e, "reshape tensor") THEN Raise(MsgUnsupported)
       ELSE IF Contains(call.e, "CUDA") THEN pc' = "ta_retry" /\ UNCHANGED call
       ELSE Raise(PrefixWhisper \o call.e)
    /\ UNCHANGED <<session_state, host, cache, hist>>
    /\ NotCli

\* lines 118-122: model.transcribe(..., device="cpu") inside the handler
TA_RetryCpu ==
    /\ pc = "ta_retry"
    /\ \E o \in EngineOutcomes :
          LET transcript == Strip(o.val)
              c == [call EXCEPT !.engineCalls = @ + 1, !.retry = o]
          IN  IF o.kind = "raise"
              THEN call' = [c EXCEPT !.exc = o.val] /\ pc' = "ta_outer"
              ELSE IF transcript = <<>>
              THEN call' = [c EXCEPT !.exc = MsgNoSpeech] /\ pc' = "ta_outer"
              ELSE /\ call' = [c EXCEPT !.status = "returned", !.value = transcript]
                   /\ pc' = "ta_finally"
    /\ UNCHANGED <<session_state, host, cache, hist>>
    /\ NotCli

\* lines 126-131
TA_OuterExcept ==
    /\ pc = "ta_outer"
    /\ call' = [call EXCEPT !.status = "raised",
                            !.value = IF Contains(call.exc, "reshape tensor")
                                      THEN MsgProcessingFailed
                                      ELSE PrefixTranscriptionFailed \o call.exc]
    /\ pc' = "ta_finally"
    /\ UNCHANGED <<session_state, host, cache, hist>>
    /\ NotCli

\* lines 132-138; then the call is over: line 229 or line 246 is next
TA_Finally ==
    /\ pc = "ta_finally"
    /\ \E unlinked \in (IF call.tmp_file_path # 0 /\ Exists(call.tmp_file_path)
                        THEN BOOLEAN ELSE {TRUE}) :
          /\ host' = IF call.tmp_file_path # 0 /\ unlinked
                     THEN [host EXCEPT !.disk = {f \in @ : f.id # call.tmp_file_path}]
                     ELSE host
          /\ call' = [call EXCEPT !.unlinkFailed = ~unlinked]
    /\ pc' = IF call.status = "returned" THEN "h_store" ELSE "h_except"
    /\ UNCHANGED <<session_state, cache, hist>>
    /\ NotCli

-----------------------------------------------------------------------------
(* streamlit_app.py: generate_summary and what follows transcribe_audio *)

\* lines 38-46, under st.cache_resource: the handle, None without the key
load_gemini_model(cached, apiKey) ==
    IF cached # "unloaded" THEN cached
    ELSE IF apiKey THEN "model" ELSE "None"

\* lines 146-148
Prompt(transcript) ==
    <<"You are an expert note taker. Using the following transcript of a meeting, generate a bullet point formatted summary. Do not speculate, use details from the given transcript alone.",
      "\n", "\n", "Transcript: [">> \o transcript \o <<"]">>

\* lines 140-154; o is what generate_content(prompt) and response.text do
generate_summary(model, o) ==
    IF model = "None" THEN MsgNoGemini
    ELSE IF o.kind = "text" THEN o.val
    ELSE PrefixSummaryError \o o.val

\* line 229
H_StoreTranscript ==
    /\ pc = "h_store"
    /\ session_state' = [session_state EXCEPT !.transcript = call.value]
    /\ pc' = "h_summary"
    /\ UNCHANGED <<host, call, cache, hist>>
    /\ NotCli

\* lines 237-238: transcript is the local of line 228
H_Summary ==
    /\ pc = "h_summary"
    /\ LET transcript == call.value
           model == load_gemini_model(cache.gemini, host.apiKey)
       IN  /\ cache' = [cache EXCEPT !.gemini = model]
           /\ \E o \in (IF model = "None" THEN {NoOutcome} ELSE GeminiOutcomes) :
                 session_state' =
                    [session_state EXCEPT !.summary = generate_summary(model, o)]
           /\ hist' = [hist EXCEPT !.summaryOf = transcript,
                                   !.prompt = IF model = "None" THEN <<>>
                                              ELSE Prompt(transcript)]
    /\ pc' = "h_finally"
    /\ UNCHANGED <<host, call>>
    /\ NotCli

\* lines 246-247
H_Except ==
    /\ pc = "h_except"
    /\ hist' = [hist EXCEPT !.shown = PrefixErrorOccurred \o call.value]
    /\ pc' = "h_finally"
    /\ UNCHANGED <<session_state, host, call, cache>>
    /\ NotCli

\* lines 248-249
H_Finally ==
    /\ pc = "h_finally"
    /\ session_state' = [session_state EXCEPT !.processing = FALSE]
    /\ pc' = "idle"
    /\ UNCHANGED <<host, call, cache, hist>>
    /\ NotCli

-----------------------------------------------------------------------------
(* The report: download_output of streamlit_app.py, output.txt of            *)
(* meeting_summarizer.py                                                     *)

\* datetime.datetime.now().strftime('%Y-%m-%d %H:%M:%S')
Timestamps == {"2025-01-01 09:00:00", "2025-01-01 09:00:01"}

\* download_output writing summary.strip() for summary
download_output_Stripped(transcript, summary, filename, now) ==
    <<"Meeting Transcript and Summary", "\n", "Generated on: ", now, "\n">>
    \o Repeat("=", TITLE_RULE_LEN) \o <<"\n", "\n">>
    \o <<"ORIGINAL TRANSCRIPT:", "\n">> \o Repeat("-", SECTION_RULE_LEN) \o <<"\n">>
    \o transcript \o <<"\n", "\n">>
    \o <<"AI-GENERATED SUMMARY:", "\n">> \o Repeat("-", SECTION_RULE_LEN) \o <<"\n">>
    \o Strip(summary) \o <<"\n">>

\* streamlit_app.py lines 156-170; filename is not used by the body
download_output(transcript, summary, filename, now) ==
    <<"Meeting Transcript and Summary", "\n", "Generated on: ", now, "\n">>
    \o Repeat("=", TITLE_RULE_LEN) \o <<"\n", "\n">>
    \o <<"ORIGINAL TRANSCRIPT:", "\n">> \o Repeat("-", SECTION_RULE_LEN) \o <<"\n">>
    \o transcript \o <<"\n", "\n">>
    \o <<"AI-GENERATED SUMMARY:", "\n">> \o Repeat("-", SECTION_RULE_LEN) \o <<"\n">>
    \o summary \o <<"\n">>

\* meeting_summarizer.py lines 67-84: what is written to output.txt
write_output(transcript_text, summary_text, audio_file, now) ==
    <<"Meeting Transcript and Summary", "\n", "Generated on: ", now, "\n",
      "Audio file: ", audio_file, "\n">>
    \o Repeat("=", TITLE_RULE_LEN) \o <<"\n", "\n">>
    \o <<"ORIGINAL TRANSCRIPT:", "\n">> \o Repeat("-", SECTION_RULE_LEN) \o <<"\n">>
    \o transcript_text \o <<"\n", "\n">>
    \o <<"AI-GENERATED SUMMARY:", "\n">> \o Repeat("-", SECTION_RULE_LEN) \o <<"\n">>
    \o summary_text \o <<"\n">>

\* meeting_summarizer.py lines 28-34: what is written to transcript.txt
write_transcript(transcript_text, audio_file, now) ==
    <<"Meeting Transcript", "\n", "Generated on: ", now, "\n",
      "Audio file: ", audio_file, "\n">>
    \o Repeat("-", TRANSCRIPT_RULE_LEN) \o <<"\n", "\n">>
    \o transcript_text \o <<"\n">>

ReportTexts == TextsUpTo({"a", " ", "\n"}, MaxReportLen)

RepOff == [T |-> <<>>, S |-> <<>>, ui |-> <<>>, file |-> <<>>, done |-> FALSE]

\* the assembler of both programs applied to the same (T, S)
Assemble ==
    /\ ~rep.done
    /\ \E now \in Timestamps :
          rep' = [rep EXCEPT
                    !.ui = download_output(rep.T, rep.S, "meeting.mp3", now),
                    !.file = write_output(rep.T, rep.S, "sample-meeting.mp3", now),
                    !.done = TRUE]
    /\ UNCHANGED <<pc, session_state, host, call, cache, hist, cli>>

-----------------------------------------------------------------------------
(* meeting_summarizer.py, top to bottom *)

MsgNoKey == <<"GEMINI_API_KEY not found in environment variables">>

NoFile == [exists |-> FALSE, text |-> <<>>]

CliOff ==
    [ pc              |-> "off",
      key             |-> FALSE,      \* GEMINI_API_KEY is set
      transcript_text |-> <<>>,
      summary_text    |-> <<>>,
      transcript_txt  |-> NoFile,     \* transcript.txt
      output_txt      |-> NoFile,     \* output.txt
      engineCalls     |-> 0,          \* model.transcribe(...) so far
      geminiCalls     |-> 0,          \* generate_content(...) so far
      step            |-> "none",     \* the step the script is in, as it prints it
      error           |-> <<>> ]      \* the uncaught exception that ended the script

NotUi == UNCHANGED <<pc, session_state, host, call, cache, hist, rep>>

\* an uncaught exception ends the script where it is
CliCrash(c, msg) == [c EXCEPT !.pc = "crashed", !.error = msg]

\* lines 9-24 ("Step 1: Audio Transcription")
Cli_Transcribe ==
    /\ cli.pc = "transcribe"
    /\ \E o \in EngineOutcomes :
          LET c == [cli EXCEPT !.engineCalls = @ + 1, !.step = "Transcribing"]
          IN  cli' = IF o.kind = "raise" THEN CliCrash(c, o.val)
                     ELSE [c EXCEPT !.transcript_text = o.val,
                                    !.pc = "save_transcript"]
    /\ NotUi

\* lines 26-36
Cli_SaveTranscript ==
    /\ cli.pc = "save_transcript"
    /\ \E now \in Timestamps :
          cli' = [cli EXCEPT
                    !.transcript_txt =
                        [exists |-> TRUE,
                         text |-> write_transcript(cli.transcript_text,
                                                   "sample-meeting.mp3", now)],
                    !.pc = "get_key"]
    /\ NotUi

\* lines 38-44 ("Step 2: AI Summary Generation")
Cli_GetKey ==
    /\ cli.pc = "get_key"
    /\ LET c == [cli EXCEPT !.step = "Summarizing"]
       IN  cli' = IF ~cli.key THEN CliCrash(c, MsgNoKey)
                  ELSE [c EXCEPT !.pc = "generate"]
    /\ NotUi

\* lines 46-60
Cli_Generate ==
    /\ cli.pc = "generate"
    /\ \E o \in GeminiOutcomes :
          LET c == [cli EXCEPT !.geminiCalls = @ + 1]
          IN  cli' = IF o.kind = "raise" THEN CliCrash(c, o.val)
                     ELSE [c EXCEPT !.summary_text = o.val, !.pc = "write_output"]
    /\ NotUi

\* lines 62-88 ("Step 3: Creating Combined Output")
Cli_WriteOutput ==
    /\ cli.pc = "write_output"
    /\ \E now \in Timestamps :
          cli' = [cli EXCEPT
                    !.step = "Assembled",
                    !.output_txt =
                        [exists |-> TRUE,
                         text |-> write_output(cli.transcript_text, cli.summary_text,
                                               "sample-meeting.mp3", now)],
                    !.pc = "done"]
    /\ NotUi

-----------------------------------------------------------------------------
(* Specifications *)

\* one UI session of streamlit_app.py
Init ==
    /\ UiInit
    /\ cli = CliOff
    /\ rep = RepOff

Next ==
    \/ ProcessAudio
    \/ TA_CheckSize
    \/ TA_WriteTmp
    \/ TA_CheckTmp
    \/ TA_CheckFfmpeg
    \/ TA_Probe
    \/ TA_Transcribe
    \/ TA_InnerExcept
    \/ TA_RetryCpu
    \/ TA_OuterExcept
    \/ TA_Finally
    \/ H_StoreTranscript
    \/ H_Summary
    \/ H_Except
    \/ H_Finally

Spec == Init /\ [][Next]_vars

UiOff ==
    /\ pc = "off"
    /\ session_state = [transcript |-> <<>>, summary |-> <<>>, processing |-> FALSE]
    /\ host = [ffmpeg |-> "ok", apiKey |-> FALSE, disk |-> {}, nextTmp |-> 1]
    /\ call = UiIdleCall
    /\ cache = [gemini |-> "unloaded"]
    /\ hist = [runs |-> 0, revealed |-> FALSE, revealedAtStart |-> FALSE,
               prevTranscript |-> <<>>, summaryOf |-> <<>>, prompt |-> <<>>,
               shown |-> <<>>]

\* one run of meeting_summarizer.py
CliInit ==
    /\ UiOff
    /\ rep = RepOff
    /\ \E k \in BOOLEAN : cli = [CliOff EXCEPT !.pc = "transcribe", !.key = k]

CliNext ==
    \/ Cli_Transcribe
    \/ Cli_SaveTranscript
    \/ Cli_GetKey
    \/ Cli_Generate
    \/ Cli_WriteOutput

CliSpec == CliInit /\ [][CliNext]_vars

\* the report assembler on every transcript T and summary S within the bound
ReportInit ==
    /\ UiOff
    /\ cli = CliOff
    /\ \E t \in ReportTexts, s \in ReportTexts :
          rep = [RepOff EXCEPT !.T = t, !.S = s]

ReportNext == Assemble

ReportSpec == ReportInit /\ [][ReportNext]_vars

-----------------------------------------------------------------------------
(* Properties *)

\* transcribe_audio has exited: its finally clause has run
CallOver ==
    /\ call.status \in {"returned", "raised"}
    /\ pc \in {"h_store", "h_summary", "h_except", "h_finally", "idle"}

\* the last text the engine handed over in this call, if its last call gave one
LastEngineOutcome == IF call.retry.kind # "none" THEN call.retry ELSE call.first

NoSpeechRaised ==
    /\ call.status = "raised"
    /\ \/ EndsWith(call.value, MsgNoSpeech)
       \/ EndsWith(call.value, MsgTooShort)

\* C1: on every exit path of transcribe_audio, the write failure of lines 70-72
\* included, no temporary file the call created is left on disk, unless the
\* removal itself failed.
C1_NoTempFileLeftOnExit ==
    (CallOver /\ ~call.unlinkFailed) => \A id \in call.created : ~Exists(id)

\* C2: a transcript transcribe_audio returns is trimmed, non-empty and at least
\* 3 characters long, and an engine text that trims to less than 3 characters,
\* from the first call or from the CPU retry, ends the call with the no-speech
\* error.
C2_ReturnedTranscriptValid ==
    /\ call.status = "returned" =>
          /\ call.value = Strip(call.value)
          /\ call.value # <<>>
          /\ Len(call.value) >= MIN_TRANSCRIPT_LEN
    /\ ( /\ CallOver
         /\ LastEngineOutcome.kind = "text"
         /\ Len(Strip(LastEngineOutcome.val)) < MIN_TRANSCRIPT_LEN ) => NoSpeechRaised

\* what a blob under the floor never causes, at any point of the call
NoWorkDone ==
    /\ call.engineCalls = 0
    /\ call.ffmpegCalls = 0
    /\ call.created = {}
    /\ call.tmp_file_path = 0

\* C3 as stated: every blob shorter than 1024 bytes is rejected with the
\* too-small error, and neither the engine, nor ffmpeg, nor a temporary file
\* is touched for it.
C3_SmallBlobTooSmall ==
    (call.status # "none" /\ call.blobSize < MIN_AUDIO_BYTES) =>
        /\ NoWorkDone
        /\ CallOver =>
              /\ call.status = "raised"
              /\ call.value = PrefixTranscriptionFailed \o MsgTooSmall

\* C3 amended: a blob shorter than 1024 bytes is rejected before the engine,
\* ffmpeg or a temporary file is touched; the error is the too-small one for
\* 1..1023 bytes and the empty-file one for 0 bytes.
C3_SmallBlobRejectedBeforeAnyWork ==
    (call.status # "none" /\ call.blobSize < MIN_AUDIO_BYTES) =>
        /\ NoWorkDone
        /\ CallOver =>
              /\ call.status = "raised"
              /\ call.value = PrefixTranscriptionFailed \o
                    (IF call.blobSize = 0 THEN MsgEmpty ELSE MsgTooSmall)

C3_Witness ==
    /\ CallOver
    /\ call.blobSize = MIN_AUDIO_BYTES - 1
    /\ call.value = PrefixTranscriptionFailed \o MsgTooSmall

\* C4: once an input has revealed that ffmpeg is missing, no later input
\* causes a temporary file to be written.
C4_NoTempFileAfterMissingFfmpeg ==
    hist.revealedAtStart => call.created = {}

\* C5: the script fails only while validating or transcribing; once the
\* transcript is there, whatever Gemini does, the run ends Assembled.
C5_OnlyTranscriptionFails ==
    cli.pc = "crashed" => cli.step \in {"Validating", "Transcribing"}

\* C6: without GEMINI_API_KEY nothing of the pipeline has run before the
\* missing-key error is raised: the engine was not called and no transcript
\* was written.
C6_MissingKeyBeforeAnyWork ==
    (cli.pc = "crashed" /\ cli.error = MsgNoKey) =>
        /\ cli.engineCalls = 0
        /\ ~cli.transcript_txt.exists

FirstRaised(x) == call.first.kind = "raise" /\ Contains(call.first.val, x)

\* C7 as stated: an engine error whose message contains "CUDA" is always
\* retried, exactly once.
C7_CudaAlwaysRetried ==
    (CallOver /\ FirstRaised("CUDA")) => call.engineCalls = 2

\* C7 amended: an engine error whose message contains "CUDA" and not
\* "reshape tensor" is retried exactly once on the CPU path; model.transcribe
\* runs at most twice in a call, the second time only after such an error, and
\* a retry that fails ends the call with an error.
C7_CudaRetriedOnce ==
    /\ call.engineCalls <= 2
    /\ call.engineCalls = 2 =>
          FirstRaised("CUDA") /\ ~FirstRaised("reshape tensor")
    /\ (CallOver /\ FirstRaised("CUDA") /\ ~FirstRaised("reshape tensor")) =>
          call.engineCalls = 2
    /\ (CallOver /\ call.retry.kind = "raise") =>
          /\ call.status = "raised"
          /\ call.engineCalls = 2

C7_Witness ==
    /\ CallOver
    /\ FirstRaised("CUDA")
    /\ call.retry.kind = "raise"
    /\ call.engineCalls = 2

MentionsWav(msg) ==
    \/ Contains(msg, "Try converting to WAV format first.")
    \/ Contains(msg, "1. Converting to WAV format")

\* C8: an engine error with "reshape tensor" in its message leaves
\* transcribe_audio as the unsupported-format error with the advice to convert
\* to WAV, not as "Transcription failed: ..."; every other engine error leaves
\* as "Transcription failed: ..." ending with the engine's message.
C8_ReshapeIsUnsupportedFormat ==
    (CallOver /\ call.first.kind = "raise") =>
        /\ call.status = "raised"
        /\ IF Contains(call.first.val, "reshape tensor")
           THEN /\ MentionsWav(call.value)
                /\ ~StartsWith(call.value, PrefixTranscriptionFailed)
           ELSE /\ StartsWith(call.value, PrefixTranscriptionFailed)
                /\ EndsWith(call.value, call.first.val)

TranscriptSection ==
    <<"ORIGINAL TRANSCRIPT:", "\n">> \o Repeat("-", SECTION_RULE_LEN) \o <<"\n">>

SummarySection ==
    <<"AI-GENERATED SUMMARY:", "\n">> \o Repeat("-", SECTION_RULE_LEN) \o <<"\n">>

\* report holds, up to its end: the transcript header and rule, T, a blank
\* line, the summary header and rule, S, a line break
Framed(report, T, S) ==
    LET body == TranscriptSection \o T \o <<"\n", "\n">>
                \o SummarySection \o S \o <<"\n">>
    IN  \E i \in 1..Len(report) :
           /\ OccursAt(body, report, i)
           /\ i + Len(body) - 1 = Len(report)

\* C9: the report assembled from T and S holds T verbatim after the
\* "ORIGINAL TRANSCRIPT:" header and its 30 dashes, then S verbatim after the
\* "AI-GENERATED SUMMARY:" header and its 30 dashes, for every T and S.
C9_ReportFramesTranscriptAndSummary ==
    rep.done =>
        /\ Framed(rep.ui, rep.T, rep.S)
        /\ Framed(rep.file, rep.T, rep.S)

C9_Witness ==
    /\ rep.done
    /\ rep.T = <<" ", "a">>
    /\ rep.S = <<"a", "\n">>

\* C10: when a run has ended the processing flag is false; after a run that
\* failed in validation or transcription both stored results are empty; a
\* non-empty stored summary was generated from the stored, non-empty
\* transcript.
C10_StoredResultsConsistent ==
    /\ pc = "idle" => ~session_state.processing
    /\ (pc = "idle" /\ call.status = "raised") =>
          /\ session_state.transcript = <<>>
          /\ session_state.summary = <<>>
    /\ session_state.summary # <<>> =>
          /\ session_state.transcript # <<>>
          /\ hist.summaryOf = session_state.transcript
          /\ hist.prompt \in {<<>>, Prompt(session_state.transcript)}

\* a run failed after an earlier run had stored its results
C10_Witness ==
    /\ pc = "idle"
    /\ call.status = "raised"
    /\ hist.prevTranscript # <<>>

====
